---------------------------- MODULE Spec2Model ----------------------------
(***************************************************************************)
(* Prescription service (src/app.py, src/models.py): creation workflow     *)
(* (appointment verification, store write, best-effort notification) and   *)
(* the read endpoints, with the appointment service, the notification      *)
(* service and the clock of the store as environment.                      *)
(***************************************************************************)
EXTENDS Integers, Sequences, FiniteSets, TLC

\* ------------------------------------------------------------------ bounds
\* Number of POST /v1/prescriptions requests of one run.
MaxReq == 2
\* Largest value of the store's clock (func.now()).
MaxTime == 2
\* Largest number of rows of a store the listing is applied to.
MaxStore == 3

\* ------------------------------------------------------------- value sets
\* Python's None, as returned by dict.get for a missing key and as the
\* default of the optional query parameters; never a valid id.
None == -1

AppointmentIds == {0, 1}
PatientIds == {0, 1}
DoctorIds == {1, 2}
Medications == {"amoxicillin", "ibuprofen"}
Dosages == {"500mg"}
DaysValues == {7}
Statuses == {"COMPLETED", "SCHEDULED"}

\* ------------------------------------------------- appointment service
\* What the appointment service holds for one appointment id.
Absent == [status |-> "None", patient_id |-> None, doctor_id |-> None]
Appointment(s, p, d) == [status |-> s, patient_id |-> p, doctor_id |-> d]
AppointmentRecords == {Appointment(s, p, d) : s \in Statuses, p \in PatientIds, d \in DoctorIds}

\* Body of an HTTP response: json = "object" (a JSON object; a key that is
\* missing reads as None through dict.get), "array" (valid JSON that is no
\* object) or "invalid" (response.json() raises).
Body(j, a) == [json |-> j, status |-> a.status, patient_id |-> a.patient_id, doctor_id |-> a.doctor_id]
ObjectBody(a) == Body("object", a)
\* {"detail": "..."}: a JSON object without status, patient_id, doctor_id.
ErrorObject == Body("object", Absent)
ArrayBody == Body("array", Absent)
InvalidBody == Body("invalid", Absent)

\* What client.get(...) yields: a response with a status code and a body, or
\* an httpx transport exception (connection refused, timeout).
Response(code, body) == [kind |-> "response", status_code |-> code, body |-> body]
ConnectError == [kind |-> "connect_error", status_code |-> 0, body |-> InvalidBody]
TimeoutError == [kind |-> "timeout", status_code |-> 0, body |-> InvalidBody]

StatusCodes == {200, 404, 500}
PartialObjects == {Appointment(s, p, d) : s \in Statuses \cup {"None"}, p \in PatientIds \cup {None}, d \in DoctorIds \cup {None}}
Bodies == {ObjectBody(a) : a \in PartialObjects} \cup {ArrayBody, InvalidBody}
Responses == {Response(c, b) : c \in StatusCodes, b \in Bodies} \cup {ConnectError, TimeoutError}

\* ------------------------------------------------- verify_appointment
HTTPException(code, detail, observed) ==
    [raised |-> TRUE, status_code |-> code, detail |-> detail, observed |-> observed, appointment |-> Absent]
Returned(a) ==
    [raised |-> FALSE, status_code |-> 0, detail |-> "", observed |-> "", appointment |-> a]

StatusDetail == "Appointment must be COMPLETED to create prescription. Current status: "
NotFoundDetail == "Appointment not found"
PatientDetail == "Patient ID does not match appointment"
DoctorDetail == "Doctor ID does not match appointment"
FailedDetail == "Failed to verify appointment"

\* Faulty variant: the doctor check is made before the patient check.
verify_appointment_doctor_first(response, patient_id, doctor_id) ==
    IF response.kind # "response" THEN HTTPException(503, FailedDetail, "")
    ELSE IF response.status_code = 404 THEN HTTPException(404, NotFoundDetail, "")
    ELSE IF response.body.json # "object" THEN HTTPException(503, FailedDetail, "")
    ELSE IF response.body.status # "COMPLETED"
         THEN HTTPException(400, StatusDetail, response.body.status)
    ELSE IF response.body.doctor_id # doctor_id THEN HTTPException(400, DoctorDetail, "")
    ELSE IF response.body.patient_id # patient_id THEN HTTPException(400, PatientDetail, "")
    ELSE Returned(Appointment(response.body.status, response.body.patient_id, response.body.doctor_id))

\* src/app.py 43-75. The status code is compared with 404 only; any other
\* response, whatever its status code, has its body parsed and checked.
\* raise_for_status() is never called, so the HTTPStatusError handler
\* (68-71) never runs; every other exception ends in the handler of 72-75.
verify_appointment(response, patient_id, doctor_id) ==
    IF response.kind # "response"
    THEN HTTPException(503, FailedDetail, "")               \* 47, 72-75
    ELSE IF response.status_code = 404
    THEN HTTPException(404, NotFoundDetail, "")             \* 48-49
    ELSE IF response.body.json = "invalid"
    THEN HTTPException(503, FailedDetail, "")               \* 51 raises, 72-75
    ELSE IF response.body.json # "object"
    THEN HTTPException(503, FailedDetail, "")               \* 54 raises, 72-75
    ELSE IF response.body.status # "COMPLETED"
    THEN HTTPException(400, StatusDetail, response.body.status)   \* 54-58
    ELSE IF response.body.patient_id # patient_id
    THEN HTTPException(400, PatientDetail, "")              \* 61-62
    ELSE IF response.body.doctor_id # doctor_id
    THEN HTTPException(400, DoctorDetail, "")               \* 64-65
    ELSE Returned(Appointment(response.body.status, response.body.patient_id, response.body.doctor_id))


\* ---------------------------------------------------- prescription store
\* A row of the prescriptions table (src/models.py 10-20).
Prescription(id, c, t) ==
    [prescription_id |-> id, appointment_id |-> c.appointment_id,
     patient_id |-> c.patient_id, doctor_id |-> c.doctor_id,
     medication |-> c.medication, dosage |-> c.dosage, days |-> c.days,
     issued_at |-> t]
\* The request body of POST /v1/prescriptions (src/models.py 22-28).
PrescriptionCreate ==
    [appointment_id : AppointmentIds, patient_id : PatientIds, doctor_id : DoctorIds,
     medication : Medications, dosage : Dosages, days : DaysValues]
NoCreate ==
    [appointment_id |-> None, patient_id |-> None, doctor_id |-> None,
     medication |-> "", dosage |-> "", days |-> 0]
NoRow == Prescription(0, NoCreate, 0)

Max(S) == CHOOSE x \in S : \A y \in S : y <= x
\* The integer primary key the table gives a new row: one more than the
\* greatest key in use (rows are never deleted).
NextId(st) == IF Len(st) = 0 THEN 1 ELSE Max({st[i].prescription_id : i \in 1..Len(st)}) + 1

\* Faulty variant: the row is merged under the key of the latest row.
InsertMerging(st, c, t) ==
    IF Len(st) = 0 THEN <<Prescription(1, c, t)>>
    ELSE [st EXCEPT ![Len(st)] = Prescription(st[Len(st)].prescription_id, c, t)]
\* Faulty variant: appointment_id is a unique column; a second row for it is refused.
InsertUniqueAppointment(st, c, t) ==
    IF \E i \in 1..Len(st) : st[i].appointment_id = c.appointment_id THEN st
    ELSE Append(st, Prescription(NextId(st), c, t))
\* db.add + db.commit (src/app.py 107-109): one new row, with the key of the
\* table and issued_at from the server default func.now() (src/models.py 20).
Insert(st, c, t) == Append(st, Prescription(NextId(st), c, t))

\* ----------------------------------------------------- get_prescription
Found(id, row) == [id |-> id, status_code |-> 200, detail |-> "", record |-> row]
NotFound(id) == [id |-> id, status_code |-> 404, detail |-> "Prescription not found", record |-> NoRow]
\* Faulty variant: the filter on prescription_id is missing; .first() yields row 1.
get_prescription_unfiltered(st, id) ==
    IF Len(st) = 0 THEN NotFound(id) ELSE Found(id, st[1])
\* src/app.py 155-163
get_prescription(st, id) ==
    LET rows == {i \in 1..Len(st) : st[i].prescription_id = id}
    IN  IF rows = {} THEN NotFound(id)
        ELSE Found(id, st[CHOOSE i \in rows : \A j \in rows : i <= j])

\* ---------------------------------------------------- get_prescriptions
\* Default and greatest page size (src/app.py 135).
DefaultLimit == 100
Skips == {0, 1, 2}
Limits == {1, 2, DefaultLimit}
\* Query parameters of GET /v1/prescriptions; None: the parameter is absent.
Queries ==
    [skip : Skips, limit : Limits,
     patient_id : PatientIds \cup {None}, appointment_id : AppointmentIds \cup {None}]

\* Python truthiness of an Optional[int]: None and 0 are false.
Truthy(x) == x # None /\ x # 0

\* src/app.py 141-147: a filter is added when the parameter is truthy.
Selected(row, q) ==
    /\ (Truthy(q.patient_id) => row.patient_id = q.patient_id)
    /\ (Truthy(q.appointment_id) => row.appointment_id = q.appointment_id)
Filtered(st, q) == SelectSeq(st, LAMBDA row : Selected(row, q))

\* ORDER BY issued_at DESC: every order of the rows with issued_at
\* non-increasing; the order of rows with equal issued_at is the database's.
Orderings(rows) ==
    LET n == Len(rows)
        perms == {f \in [1..n -> 1..n] : \A i, j \in 1..n : i # j => f[i] # f[j]}
    IN  {[i \in 1..n |-> rows[f[i]]] : f \in
            {g \in perms : \A i, j \in 1..n : i < j => rows[g[i]].issued_at >= rows[g[j]].issued_at}}
Min(a, b) == IF a <= b THEN a ELSE b
\* OFFSET skip LIMIT limit
Page(rows, skip, limit) == SubSeq(rows, skip + 1, Min(Len(rows), skip + limit))
\* src/app.py 132-153: the pages the query may return.
get_prescriptions(st, q) == {Page(o, q.skip, q.limit) : o \in Orderings(Filtered(st, q))}

\* ----------------------------------------------------- notify_service
\* What the POST to the notification service ends in.
NotifyOutcomes == {"delivered", "error_response", "connect_error", "timeout"}
\* Faulty variant: no try/except around the POST; a transport exception propagates.
notify_service_uncaught(outcome) == outcome \in {"connect_error", "timeout"}
\* src/app.py 77-88: whether notify_service raises. Every exception of the
\* POST is caught and logged; a non-success response raises none.
notify_service(outcome) == FALSE

\* The payload of the PRESCRIPTION_CREATED event (src/app.py 122-128).
Notification(row) ==
    [event_type |-> "PRESCRIPTION_CREATED", prescription_id |-> row.prescription_id,
     appointment_id |-> row.appointment_id, patient_id |-> row.patient_id,
     doctor_id |-> row.doctor_id, medication |-> row.medication]

\* ------------------------------------------------------------- state
Requests == 1..MaxReq

VARIABLES
    appointments,   \* appointment service: id -> appointment, or Absent
    now,            \* the clock func.now() reads
    store,          \* the prescriptions table, rows in insertion order
    pc,             \* per POST request: idle, verify, write, notify, done
    request,        \* per POST request: its body
    row,            \* per POST request: db_prescription after db.refresh
    response,       \* per POST request: the HTTP response
    sent,           \* POSTs made to the notification service
    written,        \* per row of store: the request that wrote it, and whether
                    \* the appointment was valid in the service at that moment
    lastRead,       \* the latest read request and its response
    vIn, vOut       \* arguments and outcome of a call of verify_appointment

vars == <<appointments, now, store, pc, request, row, response, sent, written,
          lastRead, vIn, vOut>>
workflowVars == <<appointments, now, store, pc, request, row, response, sent, written>>
readVars == <<lastRead>>
verifyVars == <<vIn, vOut>>

NoResponse == [status_code |-> 0, detail |-> "", observed |-> "", record |-> NoRow]
ErrorResponse(v) == [status_code |-> v.status_code, detail |-> v.detail, observed |-> v.observed, record |-> NoRow]
Created(r) == [status_code |-> 201, detail |-> "", observed |-> "", record |-> r]
ServerError == [status_code |-> 500, detail |-> "Internal Server Error", observed |-> "", record |-> NoRow]

\* A read request and its response: op = "get" with the response of
\* GET /v1/prescriptions/{id}, or op = "list" with the query and the page of
\* GET /v1/prescriptions.
NoList == [query |-> [skip |-> 0, limit |-> 0, patient_id |-> None, appointment_id |-> None], page |-> <<>>]
NoRead == [op |-> "none", get |-> NotFound(0), list |-> NoList]
GetRead(g) == [op |-> "get", get |-> g, list |-> NoList]
ListRead(q, page) == [op |-> "list", get |-> NotFound(0), list |-> [query |-> q, page |-> page]]
NoVerify == [response |-> ConnectError, patient_id |-> None, doctor_id |-> None]

\* ------------------------------------------------------- environment
\* The appointments of the workflow runs: one appointment id, which the
\* service holds as completed, as scheduled, for another patient, for another
\* doctor, or not at all.
ServiceIds == {1}
ServiceStates ==
    {Absent, Appointment("COMPLETED", 1, 1), Appointment("SCHEDULED", 1, 1),
     Appointment("COMPLETED", 0, 1), Appointment("COMPLETED", 1, 2)}
\* The request bodies of the workflow runs.
WorkflowCreates ==
    {c \in PrescriptionCreate : c.appointment_id \in ServiceIds /\ c.patient_id = 1 /\ c.doctor_id = 1}

\* What GET /v1/appointments/{a} may yield now: the service's answer for its
\* current data, a 500 answer (with an error object, a body that is no JSON,
\* or the data it holds), or no answer at all.
AppointmentServiceAnswers(a) ==
    {IF appointments[a] = Absent THEN Response(404, ErrorObject)
                                 ELSE Response(200, ObjectBody(appointments[a])),
     Response(500, ErrorObject), Response(500, InvalidBody),
     Response(500, ObjectBody(appointments[a])),
     ConnectError, TimeoutError}

\* Whether appointment a is, in the service, COMPLETED with these ids.
ValidNow(a, p, d) == appointments[a] = Appointment("COMPLETED", p, d)

\* The appointment service changes an appointment (another client's doing).
AppointmentChange(a, v) ==
    /\ appointments[a] # v
    /\ appointments' = [appointments EXCEPT ![a] = v]
    /\ UNCHANGED <<now, store, pc, request, row, response, sent, written>>
    /\ UNCHANGED <<readVars, verifyVars>>

\* Time passes.
Tick ==
    /\ now < MaxTime
    /\ now' = now + 1
    /\ UNCHANGED <<appointments, store, pc, request, row, response, sent, written>>
    /\ UNCHANGED <<readVars, verifyVars>>

\* ---------------------------------------------- POST /v1/prescriptions
\* Faulty variant: the handler goes on to the write whatever verification says.
AfterVerifyAlwaysWrite(v) == "write"
\* src/app.py 101-105: an HTTPException of verify_appointment leaves the
\* handler; otherwise the handler goes on to the write.
AfterVerify(v) == IF v.raised THEN "done" ELSE "write"

\* The request arrives and the handler awaits the appointment service
\* (src/app.py 91-101, 45-47). Requests are numbered in order of arrival.
CreateStart(r, c) ==
    /\ pc[r] = "idle"
    /\ \A q \in Requests : q < r => pc[q] # "idle"
    /\ pc' = [pc EXCEPT ![r] = "verify"]
    /\ request' = [request EXCEPT ![r] = c]
    /\ UNCHANGED <<appointments, now, store, row, response, sent, written>>
    /\ UNCHANGED <<readVars, verifyVars>>

\* The appointment service answers and verify_appointment checks the answer
\* (src/app.py 47-75, 101-105). The answer is of the service's data at this
\* moment; the write is a later step.
CreateVerify(r, answer) ==
    /\ pc[r] = "verify"
    /\ answer \in AppointmentServiceAnswers(request[r].appointment_id)
    /\ LET v == verify_appointment(answer, request[r].patient_id, request[r].doctor_id)
       IN  /\ pc' = [pc EXCEPT ![r] = AfterVerify(v)]
           /\ response' = [response EXCEPT ![r] = IF v.raised THEN ErrorResponse(v) ELSE NoResponse]
    /\ UNCHANGED <<appointments, now, store, request, row, sent, written>>
    /\ UNCHANGED <<readVars, verifyVars>>

\* db.add, db.commit, db.refresh (src/app.py 107-110); the handler then awaits
\* the notification service (122, 79-85).
CreateWrite(r) ==
    /\ pc[r] = "write"
    /\ store' = Insert(store, request[r], now)
    /\ row' = [row EXCEPT ![r] = Prescription(NextId(store), request[r], now)]
    /\ written' = Append(written,
            [by |-> r,
             valid |-> ValidNow(request[r].appointment_id, request[r].patient_id, request[r].doctor_id)])
    /\ pc' = [pc EXCEPT ![r] = "notify"]
    /\ UNCHANGED <<appointments, now, request, response, sent>>
    /\ UNCHANGED <<readVars, verifyVars>>

\* The POST to the notification service ends, notify_service returns and the
\* handler returns db_prescription (src/app.py 77-88, 122-130).
CreateNotify(r, outcome) ==
    /\ pc[r] = "notify"
    /\ sent' = sent \cup {[by |-> r, data |-> Notification(row[r]), outcome |-> outcome]}
    /\ response' = [response EXCEPT ![r] =
            IF notify_service(outcome) THEN ServerError ELSE Created(row[r])]
    /\ pc' = [pc EXCEPT ![r] = "done"]
    /\ UNCHANGED <<appointments, now, store, request, row, written>>
    /\ UNCHANGED <<readVars, verifyVars>>

\* ------------------------------------------------------------- reads
\* GET /v1/prescriptions/{id} (src/app.py 155-163)
GetPrescription(id) ==
    /\ lastRead' = GetRead(get_prescription(store, id))
    /\ UNCHANGED <<workflowVars, verifyVars>>

\* GET /v1/prescriptions (src/app.py 132-153)
GetPrescriptions(q) ==
    /\ \E page \in get_prescriptions(store, q) : lastRead' = ListRead(q, page)
    /\ UNCHANGED <<workflowVars, verifyVars>>

\* GET /health (src/app.py 165-167): a static payload; nothing is read or
\* written.
HealthCheck ==
    /\ UNCHANGED <<workflowVars, readVars, verifyVars>>

\* --------------------------------------------------- specifications
PrescriptionIds == 1..(MaxReq + 1)
\* The query of the workflow runs: no filter, the default page.
WorkflowQueries ==
    {q \in Queries : q.skip = 0 /\ q.limit = DefaultLimit
                     /\ q.patient_id = None /\ q.appointment_id = None}

Init ==
    /\ appointments \in [ServiceIds -> ServiceStates]
    /\ now = 1
    /\ store = <<>>
    /\ pc = [r \in Requests |-> "idle"]
    /\ request = [r \in Requests |-> NoCreate]
    /\ row = [r \in Requests |-> NoRow]
    /\ response = [r \in Requests |-> NoResponse]
    /\ sent = {}
    /\ written = <<>>
    /\ lastRead = NoRead
    /\ vIn = NoVerify
    /\ vOut = HTTPException(0, "not called", "")

Next ==
    \/ \E a \in ServiceIds, v \in ServiceStates : AppointmentChange(a, v)
    \/ Tick
    \/ \E r \in Requests, c \in WorkflowCreates : CreateStart(r, c)
    \/ \E r \in Requests, answer \in Responses : CreateVerify(r, answer)
    \/ \E r \in Requests : CreateWrite(r)
    \/ \E r \in Requests, outcome \in NotifyOutcomes : CreateNotify(r, outcome)
    \/ \E id \in PrescriptionIds : GetPrescription(id)
    \/ \E q \in WorkflowQueries : GetPrescriptions(q)
    \/ HealthCheck

Spec == Init /\ [][Next]_vars

\* ---------------------------------------- verify_appointment on its own
NotCalled == HTTPException(0, "not called", "")
VerifyInputs == [response : Responses, patient_id : PatientIds, doctor_id : DoctorIds]

Idle ==
    /\ appointments = [a \in ServiceIds |-> Absent]
    /\ now = 1
    /\ pc = [r \in Requests |-> "idle"]
    /\ request = [r \in Requests |-> NoCreate]
    /\ row = [r \in Requests |-> NoRow]
    /\ response = [r \in Requests |-> NoResponse]
    /\ sent = {}

InitVerify ==
    /\ Idle
    /\ store = <<>>
    /\ written = <<>>
    /\ lastRead = NoRead
    /\ vIn \in VerifyInputs
    /\ vOut = NotCalled

\* One call of verify_appointment (src/app.py 43-75).
VerifyCall ==
    /\ vOut = NotCalled
    /\ vOut' = verify_appointment(vIn.response, vIn.patient_id, vIn.doctor_id)
    /\ UNCHANGED <<workflowVars, readVars, vIn>>

NextVerify == VerifyCall

SpecVerify == InitVerify /\ [][NextVerify]_vars

\* ----------------------------------------- get_prescriptions on its own
\* The rows the listing is applied to.
ListCreates ==
    {c \in PrescriptionCreate : c.doctor_id = 1 /\ c.medication = "amoxicillin"}
\* The stores the service can hold: keys 1, 2, ... in insertion order, and
\* issued_at, read from the clock at each insert, never decreasing.
Stores ==
    UNION {{[i \in 1..n |-> Prescription(i, c[i], t[i])] :
               c \in [1..n -> ListCreates],
               t \in {u \in [1..n -> 1..MaxTime] : \A i, j \in 1..n : i < j => u[i] <= u[j]}}
           : n \in 0..MaxStore}

InitList ==
    /\ Idle
    /\ store \in Stores
    /\ written = [i \in 1..Len(store) |-> [by |-> 0, valid |-> TRUE]]
    /\ lastRead = NoRead
    /\ vIn = NoVerify
    /\ vOut = NotCalled

\* One call of get_prescriptions (src/app.py 132-153).
ListCall(q) ==
    /\ lastRead = NoRead
    /\ GetPrescriptions(q)

NextList == \E q \in Queries : ListCall(q)

SpecList == InitList /\ [][NextList]_vars

\* ------------------------------------------------------------ claims
VerificationErrors == {400, 404, 503}

\* C1: a POST whose verification fails (404, 400 or 503) leaves the store
\* and the notifications as they were in the step that fails it, and no row
\* of the store and no notification is ever that request's, whatever the
\* other requests do.
C1_FailedVerificationWritesNothing ==
    [][\A r \in Requests :
          /\ (pc[r] = "verify" /\ response'[r].status_code \in VerificationErrors)
                => (store' = store /\ sent' = sent)
          /\ response'[r].status_code \in VerificationErrors
                => /\ \A i \in 1..Len(written') : written'[i].by # r
                   /\ \A n \in sent' : n.by # r]_vars
\* A request answered 503 while another request's row and notification exist.
C1_Witness ==
    \E r \in Requests :
        /\ pc[r] = "done" /\ response[r].status_code = 503
        /\ Len(store) = 1 /\ sent # {}

\* C2: every row of the store was written at a moment when its appointment
\* was, in the appointment service, COMPLETED with the row's patient_id and
\* doctor_id.
C2_WrittenWhileAppointmentValid ==
    \A i \in 1..Len(written) : written[i].valid

\* C3: verify_appointment fails with 503 whenever the appointment service is
\* unreachable, times out, or answers with a status other than success or 404.
C3_FaultsGive503 ==
    (vOut # NotCalled /\ (vIn.response.kind # "response" \/ vIn.response.status_code \notin {200, 404}))
        => (vOut.raised /\ vOut.status_code = 503)

\* C4: for an answer of the appointment service that is 404 or a success
\* carrying a JSON object, verify_appointment reports the first failing
\* check of: not found, status not COMPLETED, patient_id differs, doctor_id
\* differs; and it succeeds exactly when none fails.
C4_FirstFailingCheck ==
    LET a == vIn.response
        notFound == a.status_code = 404
        badStatus == a.body.status # "COMPLETED"
        badPatient == a.body.patient_id # vIn.patient_id
        badDoctor == a.body.doctor_id # vIn.doctor_id
    IN  (/\ vOut # NotCalled
         /\ a.kind = "response"
         /\ (a.status_code = 404 \/ (a.status_code = 200 /\ a.body.json = "object")))
        => /\ notFound => (vOut.raised /\ vOut.status_code = 404 /\ vOut.detail = NotFoundDetail)
           /\ (~notFound /\ badStatus)
                => (vOut.raised /\ vOut.status_code = 400 /\ vOut.detail = StatusDetail
                    /\ vOut.observed = a.body.status)
           /\ (~notFound /\ ~badStatus /\ badPatient)
                => (vOut.raised /\ vOut.status_code = 400 /\ vOut.detail = PatientDetail)
           /\ (~notFound /\ ~badStatus /\ ~badPatient /\ badDoctor)
                => (vOut.raised /\ vOut.status_code = 400 /\ vOut.detail = DoctorDetail)
           /\ ~vOut.raised <=> (~notFound /\ ~badStatus /\ ~badPatient /\ ~badDoctor)
\* A COMPLETED appointment with both ids differing: the patient is reported.
C4_Witness ==
    /\ vIn.response.kind = "response" /\ vIn.response.status_code = 200
    /\ vIn.response.body.json = "object" /\ vIn.response.body.status = "COMPLETED"
    /\ vIn.response.body.patient_id \in PatientIds
    /\ vIn.response.body.patient_id # vIn.patient_id
    /\ vIn.response.body.doctor_id \in DoctorIds
    /\ vIn.response.body.doctor_id # vIn.doctor_id
    /\ vOut.raised /\ vOut.detail = PatientDetail

\* C5: a POST that has written its row returns 201 with that row, which is
\* still in the store as written, whatever the notification call ended in.
C5_NotificationNeverFailsCreate ==
    \A i \in 1..Len(written) :
        LET r == written[i].by
        IN  pc[r] = "done"
                => /\ response[r].status_code = 201
                   /\ response[r].record = store[i]
                   /\ store[i] = Prescription(store[i].prescription_id, request[r], store[i].issued_at)
                   /\ \E n \in sent : n.by = r /\ n.data = Notification(store[i])
\* Both requests returned, one after a timeout and one after an error
\* response of the notification service.
C5_Witness ==
    /\ \A r \in Requests : pc[r] = "done" /\ response[r].status_code = 201
    /\ \E n \in sent : n.outcome = "timeout"
    /\ \E n \in sent : n.outcome = "error_response"

\* C6: every row of the store stays where it is with all its fields; the
\* store changes only in the write step of a create, by one row at its end.
C6_AppendOnly ==
    [][/\ Len(store') >= Len(store)
       /\ \A i \in 1..Len(store) : store'[i] = store[i]
       /\ store' # store
            => /\ Len(store') = Len(store) + 1
               /\ \E r \in Requests : pc[r] = "write" /\ pc'[r] = "notify"]_vars
\* Two rows written, and read by a listing.
C6_Witness ==
    /\ Len(store) = 2
    /\ lastRead.op = "list" /\ Len(lastRead.list.page) = 2

\* C7 as stated: GET of the id a create returned yields that create's row;
\* GET of an id no create has returned yields 404.
C7_NotReturnedIsNotFound ==
    [][(lastRead'.op = "get" /\ lastRead' # lastRead)
        => LET g == lastRead'.get
           IN  /\ \A r \in Requests :
                    (response[r].status_code = 201 /\ response[r].record.prescription_id = g.id)
                        => (g.status_code = 200 /\ g.record = response[r].record)
               /\ (\A r \in Requests :
                        ~(response[r].status_code = 201 /\ response[r].record.prescription_id = g.id))
                    => g.status_code = 404]_vars
\* C7 as amended: GET of the id a create returned yields 200 with the
\* submitted fields and the id and issued_at of the 201 response; GET yields
\* 404 exactly for an id under which no create has yet written its row.
C7_RoundTrip ==
    [][(lastRead'.op = "get" /\ lastRead' # lastRead)
        => LET g == lastRead'.get
           IN  /\ \A r \in Requests :
                    (response[r].status_code = 201 /\ response[r].record.prescription_id = g.id)
                        => /\ g.status_code = 200
                           /\ g.record = response[r].record
                           /\ g.record = Prescription(g.id, request[r], response[r].record.issued_at)
               /\ g.status_code = 404
                    <=> \A r \in Requests :
                            ~(pc[r] \in {"notify", "done"} /\ row[r].prescription_id = g.id)
               /\ g.status_code \in {200, 404}]_vars
\* The first of two rows is read after the second was written.
C7_Witness ==
    /\ Len(store) = 2
    /\ lastRead.op = "get" /\ lastRead.get.status_code = 200 /\ lastRead.get.id = 1
    /\ \E r \in Requests :
        /\ response[r].status_code = 201
        /\ response[r].record = lastRead.get.record
        /\ lastRead.get.record.medication = "ibuprofen"

\* Whether query parameter x, when supplied, admits value v.
Supplied(x, v) == x # None => v = x

\* C8: every row a listing returns has the patient_id and the
\* appointment_id the query supplied, 0 included.
C8_SuppliedFiltersApplied ==
    lastRead.op = "list"
        => \A i \in 1..Len(lastRead.list.page) :
              /\ Supplied(lastRead.list.query.patient_id, lastRead.list.page[i].patient_id)
              /\ Supplied(lastRead.list.query.appointment_id, lastRead.list.page[i].appointment_id)

\* C9: a listing returns the rows at positions skip+1 .. skip+limit of the
\* rows matching the supplied filters, in an order of non-increasing
\* issued_at.
C9_PageOfMatchingRows ==
    lastRead.op = "list"
        => LET q == lastRead.list.query
               matching == SelectSeq(store, LAMBDA x :
                               /\ Supplied(q.patient_id, x.patient_id)
                               /\ Supplied(q.appointment_id, x.appointment_id))
           IN  \E o \in Orderings(matching) : lastRead.list.page = Page(o, q.skip, q.limit)

\* C10: two creates for the same appointment that both passed verification
\* both return 201, with different prescription_id, and both rows are in
\* the store for that appointment_id.
C10_NoDeduplication ==
    \A r1, r2 \in Requests :
        (/\ r1 # r2
         /\ pc[r1] = "done" /\ pc[r2] = "done"
         /\ request[r1].appointment_id = request[r2].appointment_id
         /\ response[r1].status_code \notin VerificationErrors
         /\ response[r2].status_code \notin VerificationErrors)
        => /\ response[r1].status_code = 201 /\ response[r2].status_code = 201
           /\ response[r1].record.prescription_id # response[r2].record.prescription_id
           /\ \E i, j \in 1..Len(store) :
                /\ i # j
                /\ store[i] = response[r1].record /\ store[j] = response[r2].record
                /\ store[i].appointment_id = request[r1].appointment_id
                /\ store[j].appointment_id = request[r1].appointment_id
\* Two creates of the same prescription for one appointment, written at the
\* same clock value, have both returned.
C10_Witness ==
    /\ \A r \in Requests : pc[r] = "done" /\ response[r].status_code = 201
    /\ request[1] = request[2]
    /\ Len(store) = 2 /\ store[1].issued_at = store[2].issued_at
=============================================================================
